---- MODULE Spec2Model ----
(***************************************************************************)
(* Model of the secret-agent repository's authenticated client gateway     *)
(* (src/src/utils/secure_clients.py): SecureClientManager, its accessors,  *)
(* test_connections and the module-level default instance.                 *)
(*                                                                         *)
(* Conventions.  A Python str is a sequence of code points, so "" is <<>>. *)
(* An Optional value is a sequence of length at most one: None is <<>> and *)
(* the value v is <<v>>.  A URL is the record urlparse would give, with    *)
(* the port Optional.  A header map is a function from header names to     *)
(* values.                                                                 *)
(***************************************************************************)
EXTENDS Integers, Sequences, FiniteSets, TLC

VARIABLES
    env,          \* os.environ: variable name -> Optional value
    envOps,       \* number of environment changes made so far
    installed,    \* the optional client libraries that can be imported
    mgr,          \* Optional SecureClientManager held by the caller
    ctor,         \* Optional record of the constructor call that built mgr
    ret,          \* what the most recent accessor call returned or raised
    suppressCalls, \* number of urllib3.disable_warnings calls in this process
    gateways,     \* every SecureClientManager built so far, in order
    _client_manager, \* the module global: Optional index into gateways
    results,      \* Optional outcome of the most recent test_connections call
    probe,        \* Optional: what the backends did during that call
    heap,         \* every requests.Session made so far; a session's id is its index
    ui,           \* the pages open in browsers: each one's component values
    threads,      \* the threads inside get_client_manager: position and locals of each
    chat,         \* the expert chat: its components and the running expert_chat_stream
    tester        \* the ServiceTester of scripts/test_services.py and its run

vars == <<env, envOps, installed, mgr, ctor, ret, suppressCalls, gateways,
          _client_manager, results, probe, heap, ui, threads, chat, tester>>

\* ------------------------------------------------------------------ bounds

MaxEnvOps == 1      \* environment changes per behaviour
MaxPwLen == 2       \* code points in a graph password passed as argument
MaxGateways == 2    \* gateways built per behaviour of the lifecycle model

\* The sessions made in one process of the object model.
MaxSessions == 3

\* The pages of the wizard open at the same time.
MaxPages == 3

\* The threads that call get_client_manager at the same time.
MaxThreads == 3

\* The entries the expert chat may hold.
MaxHistory == 2

\* The failures one run of the service tester may count.
MaxFailed == 2

\* ------------------------------------------------------- Python primitives

None == <<>>
Some(v) == <<v>>

\* bool(x) for an Optional[str]: None and "" are falsy.
Truthy(o) == o # None /\ o[1] # <<>>

\* Python `a or b` on Optional[str].
PyOr(a, b) == IF Truthy(a) THEN a ELSE b

\* os.getenv(name): None when unset.
getenv(e, name) == e[name]

\* os.getenv(name, default): the default only when the variable is unset.
getenv_default(e, name, default) == IF e[name] = None THEN default ELSE e[name][1]

\* str.encode(): UTF-8 bytes of a sequence of code points.
Utf8Char(cp) ==
    IF cp < 128 THEN <<cp>>
    ELSE IF cp < 2048 THEN <<192 + (cp \div 64), 128 + (cp % 64)>>
    ELSE <<224 + (cp \div 4096), 128 + ((cp \div 64) % 64), 128 + (cp % 64)>>

RECURSIVE Utf8Encode(_)
Utf8Encode(s) ==
    IF s = <<>> THEN <<>> ELSE Utf8Char(Head(s)) \o Utf8Encode(Tail(s))

\* The base64 alphabet: the character (code point) of a 6-bit value.
B64Char(v) ==
    IF v < 26 THEN 65 + v
    ELSE IF v < 52 THEN 97 + (v - 26)
    ELSE IF v < 62 THEN 48 + (v - 52)
    ELSE IF v = 62 THEN 43 ELSE 47

\* base64.b64encode(b).decode(): three bytes to four characters, '=' padded.
RECURSIVE b64encode(_)
b64encode(b) ==
    IF Len(b) = 0 THEN <<>>
    ELSE IF Len(b) = 1 THEN
        <<B64Char(b[1] \div 4), B64Char((b[1] % 4) * 16), 61, 61>>
    ELSE IF Len(b) = 2 THEN
        <<B64Char(b[1] \div 4), B64Char((b[1] % 4) * 16 + (b[2] \div 16)),
          B64Char((b[2] % 16) * 4), 61>>
    ELSE
        <<B64Char(b[1] \div 4), B64Char((b[1] % 4) * 16 + (b[2] \div 16)),
          B64Char((b[2] % 16) * 4 + (b[3] \div 64)), B64Char(b[3] % 64)>>
        \o b64encode(SubSeq(b, 4, Len(b)))

\* int(s) for the strings REDIS_PORT takes here: decimal digits give the
\* number, anything else raises ValueError.
IsDigits(s) == s # <<>> /\ \A i \in 1..Len(s) : s[i] >= 48 /\ s[i] <= 57

RECURSIVE DecimalValue(_)
DecimalValue(s) ==
    IF s = <<>> THEN 0
    ELSE 10 * DecimalValue(SubSeq(s, 1, Len(s) - 1)) + (s[Len(s)] - 48)

\* ------------------------------------------------------------ string data

\* The literals of the source, as code points.
PrincipalColon == <<110, 101, 111, 52, 106, 58>>        \* "neo4j:"
Principal == <<110, 101, 111, 52, 106>>                 \* "neo4j"
BasicSpace == <<66, 97, 115, 105, 99, 32>>              \* "Basic "
DefaultRedisPort == <<54, 51, 55, 57>>                  \* "6379"
TokenAuthProvider == "chromadb.auth.token.TokenAuthClientProvider"

Url(scheme, host, port, path) ==
    [scheme |-> scheme, host |-> host, port |-> port, path |-> path]

CaddyOllamaUrl == Url("https", "localhost", Some(18343), "/ollama")
CaddyChromaUrl == Url("https", "localhost", Some(18343), "/chroma")
CaddyNeo4jUrl == Url("https", "localhost", Some(18343), "/neo4j")
DirectOllamaUrl == Url("http", "localhost", Some(11434), "")
DirectChromaUrl == Url("http", "localhost", Some(8000), "")
DirectNeo4jUrl == Url("http", "localhost", Some(7474), "")
BoltUrl == Url("bolt", "localhost", Some(7687), "")

EmptyHeaders == [h \in {} |-> <<>>]
HeadersUpdate(headers, name, value) == (name :> value) @@ headers
HasHeader(headers, name) == name \in DOMAIN headers

\* requests.Session.verify: True, False, or the path of a CA bundle.
VerifyDefault == [on |-> TRUE, ca |-> None]
VerifyOff == [on |-> FALSE, ca |-> None]
VerifyWith(path) == [on |-> TRUE, ca |-> Some(path)]

\* requests.Session(): no authentication header, verification on. The id is
\* the object's identity; 0 marks an object the running call has just made,
\* which gets its identity when the call's step places it in the heap.
NewSession == [id |-> 0, headers |-> EmptyHeaders, verify |-> VerifyDefault]

\* ------------------------------------------- SecureClientManager.__init__

\* The constructor's defaults (use_caddy=True, verify_ssl=True, rest None).
DefaultArgs ==
    [api_key |-> None, neo4j_password |-> None, redis_password |-> None,
     use_caddy |-> TRUE, verify_ssl |-> TRUE, ssl_cert_path |-> None]

\* Lines 36-41: each credential is the argument, or the environment variable
\* when the argument is None or empty; the mode and TLS flags are stored.
ReadCredentials(args, e) ==
    [api_key |-> PyOr(args.api_key, getenv(e, "API_KEY")),
     neo4j_password |-> PyOr(args.neo4j_password, getenv(e, "NEO4J_PASSWORD")),
     redis_password |-> PyOr(args.redis_password, getenv(e, "REDIS_PASSWORD")),
     use_caddy |-> args.use_caddy,
     verify_ssl |-> args.verify_ssl,
     ssl_cert_path |-> PyOr(args.ssl_cert_path, getenv(e, "SSL_CERT_PATH"))]

\* Variant: the bolt URL of a proxied gateway points at the proxy.
ResolveUrls_BoltViaProxy(use_caddy, e) ==
    IF use_caddy THEN
        [ollama_url |-> getenv_default(e, "OLLAMA_URL", CaddyOllamaUrl),
         chroma_url |-> getenv_default(e, "CHROMA_URL", CaddyChromaUrl),
         neo4j_http_url |-> getenv_default(e, "NEO4J_URL", CaddyNeo4jUrl),
         neo4j_bolt_url |-> Url("bolt", "localhost", Some(18343), "")]
    ELSE
        [ollama_url |-> getenv_default(e, "OLLAMA_URL", DirectOllamaUrl),
         chroma_url |-> getenv_default(e, "CHROMA_URL", DirectChromaUrl),
         neo4j_http_url |-> DirectNeo4jUrl,
         neo4j_bolt_url |-> BoltUrl]

\* Lines 43-55: the service URLs of the deployment mode.
ResolveUrls(use_caddy, e) ==
    IF use_caddy THEN
        [ollama_url |-> getenv_default(e, "OLLAMA_URL", CaddyOllamaUrl),
         chroma_url |-> getenv_default(e, "CHROMA_URL", CaddyChromaUrl),
         neo4j_http_url |-> getenv_default(e, "NEO4J_URL", CaddyNeo4jUrl),
         neo4j_bolt_url |-> BoltUrl]
    ELSE
        [ollama_url |-> getenv_default(e, "OLLAMA_URL", DirectOllamaUrl),
         chroma_url |-> getenv_default(e, "CHROMA_URL", DirectChromaUrl),
         neo4j_http_url |-> DirectNeo4jUrl,
         neo4j_bolt_url |-> BoltUrl]

\* Variant: the key is attached whenever it is set, in direct mode too.
AuthenticatedSession_AnyMode(use_caddy, api_key) ==
    IF Truthy(api_key)
    THEN [NewSession EXCEPT !.headers = HeadersUpdate(@, "X-API-Key", api_key[1])]
    ELSE NewSession

\* Lines 57-60: the gateway's HTTP session, with the proxy key in proxied mode.
AuthenticatedSession(use_caddy, api_key) ==
    IF use_caddy /\ Truthy(api_key)
    THEN [NewSession EXCEPT !.headers = HeadersUpdate(@, "X-API-Key", api_key[1])]
    ELSE NewSession

\* Variant: the warning is switched off whenever verify_ssl is False, also
\* when a certificate path is in use.
ConfigureSsl_WarnOffWithCert(session, verify_ssl, ssl_cert_path) ==
    IF Truthy(ssl_cert_path) THEN
        [session |-> [session EXCEPT !.verify = VerifyWith(ssl_cert_path[1])],
         suppressed |-> IF verify_ssl THEN 0 ELSE 1]
    ELSE IF ~verify_ssl THEN
        [session |-> [session EXCEPT !.verify = VerifyOff], suppressed |-> 1]
    ELSE
        [session |-> session, suppressed |-> 0]

\* Lines 62-69: TLS verification of that session, and the number of
\* urllib3.disable_warnings calls the constructor makes.
ConfigureSsl(session, verify_ssl, ssl_cert_path) ==
    IF Truthy(ssl_cert_path) THEN
        [session |-> [session EXCEPT !.verify = VerifyWith(ssl_cert_path[1])],
         suppressed |-> 0]
    ELSE IF ~verify_ssl THEN
        [session |-> [session EXCEPT !.verify = VerifyOff], suppressed |-> 1]
    ELSE
        [session |-> session, suppressed |-> 0]

\* Variant: the constructor validates the credentials and raises when one is
\* missing.
SCM_init_Eager(args, e) ==
    LET c == ReadCredentials(args, e)
        u == ResolveUrls(args.use_caddy, e)
        s == ConfigureSsl(AuthenticatedSession(args.use_caddy, c.api_key),
                          c.verify_ssl, c.ssl_cert_path)
    IN  [raised |-> ~(Truthy(c.api_key) /\ Truthy(c.neo4j_password)
                       /\ Truthy(c.redis_password)),
         suppressed |-> s.suppressed,
         self |-> [api_key |-> c.api_key,
                   neo4j_password |-> c.neo4j_password,
                   redis_password |-> c.redis_password,
                   use_caddy |-> c.use_caddy,
                   verify_ssl |-> c.verify_ssl,
                   ssl_cert_path |-> c.ssl_cert_path,
                   ollama_url |-> u.ollama_url,
                   chroma_url |-> u.chroma_url,
                   neo4j_http_url |-> u.neo4j_http_url,
                   neo4j_bolt_url |-> u.neo4j_bolt_url,
                   session |-> s.session]]

\* SecureClientManager(**args) under environment e: whether it raised, the
\* object built, and the disable_warnings calls made.
SCM_init(args, e) ==
    LET c == ReadCredentials(args, e)
        u == ResolveUrls(args.use_caddy, e)
        s == ConfigureSsl(AuthenticatedSession(args.use_caddy, c.api_key),
                          c.verify_ssl, c.ssl_cert_path)
    IN  [raised |-> FALSE,
         suppressed |-> s.suppressed,
         self |-> [api_key |-> c.api_key,
                   neo4j_password |-> c.neo4j_password,
                   redis_password |-> c.redis_password,
                   use_caddy |-> c.use_caddy,
                   verify_ssl |-> c.verify_ssl,
                   ssl_cert_path |-> c.ssl_cert_path,
                   ollama_url |-> u.ollama_url,
                   chroma_url |-> u.chroma_url,
                   neo4j_http_url |-> u.neo4j_http_url,
                   neo4j_bolt_url |-> u.neo4j_bolt_url,
                   session |-> s.session]]

\* ------------------------------------------------------------- accessors

\* A call's outcome: the exception raised, or the value returned.
Returned(call, target, value) ==
    [call |-> call, raised |-> FALSE, exc |-> "", target |-> Some(target),
     value |-> Some(value)]
Raised(call, exc) ==
    [call |-> call, raised |-> TRUE, exc |-> exc, target |-> None, value |-> None]
NoCall == [call |-> "", raised |-> FALSE, exc |-> "", target |-> None, value |-> None]

\* Variant: a session is built, with the constructor's settings, on each call.
get_ollama_session_FreshEachCall(self) ==
    Returned("get_ollama_session", self.ollama_url, [self.session EXCEPT !.id = 0])

\* Lines 71-86: the session built by the constructor; it is used against
\* self.ollama_url.
get_ollama_session(self) ==
    Returned("get_ollama_session", self.ollama_url, self.session)

\* Variant: the header is attached, the native token settings are not.
get_chroma_client_HeaderOnly(self, libs) ==
    IF "chromadb" \notin libs THEN Raised("get_chroma_client", "ImportError")
    ELSE
        LET parsed == self.chroma_url
            host == IF parsed.host = "" THEN "localhost" ELSE parsed.host
            port == IF parsed.port = None \/ parsed.port = Some(0)
                    THEN 8000 ELSE parsed.port[1]
            auth == self.use_caddy /\ Truthy(self.api_key)
            headers == IF auth
                       THEN HeadersUpdate(EmptyHeaders, "X-API-Key", self.api_key[1])
                       ELSE EmptyHeaders
        IN  Returned("get_chroma_client",
                     [host |-> host, port |-> port],
                     [host |-> host, port |-> port, settings |-> None,
                      headers |-> headers])

\* Lines 100-135: a chromadb.HttpClient for the host and port of chroma_url.
get_chroma_client(self, libs) ==
    IF "chromadb" \notin libs THEN Raised("get_chroma_client", "ImportError")
    ELSE
        LET parsed == self.chroma_url
            host == IF parsed.host = "" THEN "localhost" ELSE parsed.host
            port == IF parsed.port = None \/ parsed.port = Some(0)
                    THEN 8000 ELSE parsed.port[1]
            auth == self.use_caddy /\ Truthy(self.api_key)
            headers == IF auth
                       THEN HeadersUpdate(EmptyHeaders, "X-API-Key", self.api_key[1])
                       ELSE EmptyHeaders
            settings == IF auth
                        THEN Some([chroma_server_auth_credentials |-> self.api_key[1],
                                   chroma_server_auth_provider |-> TokenAuthProvider])
                        ELSE None
        IN  Returned("get_chroma_client",
                     [host |-> host, port |-> port],
                     [host |-> host, port |-> port, settings |-> settings,
                      headers |-> headers])

\* Variant: the import guard of the vector store, pasted into the graph
\* driver's accessor.
get_neo4j_driver_ChromaGuard(self, libs) ==
    IF "chromadb" \notin libs THEN Raised("get_neo4j_driver", "ImportError")
    ELSE Returned("get_neo4j_driver", self.neo4j_bolt_url,
                  [uri |-> self.neo4j_bolt_url,
                   auth |-> [user |-> Principal, password |-> self.neo4j_password]])

\* Lines 151-159: a driver for the bolt URL with native authentication.
get_neo4j_driver(self, libs) ==
    IF "neo4j" \notin libs THEN Raised("get_neo4j_driver", "ImportError")
    ELSE Returned("get_neo4j_driver", self.neo4j_bolt_url,
                  [uri |-> self.neo4j_bolt_url,
                   auth |-> [user |-> Principal, password |-> self.neo4j_password]])

\* Variant: the principal is left out of the encoded credentials.
get_neo4j_http_session_NoPrincipal(self) ==
    LET s0 == NewSession
        s1 == IF self.use_caddy /\ Truthy(self.api_key)
              THEN [s0 EXCEPT !.headers = HeadersUpdate(@, "X-API-Key", self.api_key[1])]
              ELSE s0
        s2 == IF Truthy(self.neo4j_password)
              THEN LET credentials == b64encode(Utf8Encode(self.neo4j_password[1]))
                   IN  [s1 EXCEPT !.headers =
                            HeadersUpdate(@, "Authorization", BasicSpace \o credentials)]
              ELSE s1
    IN  Returned("get_neo4j_http_session", self.neo4j_http_url, s2)

\* Variant: the headers are written into the gateway's own session, which
\* is returned.
get_neo4j_http_session_SharedSession(self) ==
    LET s0 == self.session
        s1 == IF self.use_caddy /\ Truthy(self.api_key)
              THEN [s0 EXCEPT !.headers = HeadersUpdate(@, "X-API-Key", self.api_key[1])]
              ELSE s0
        s2 == IF Truthy(self.neo4j_password)
              THEN LET credentials ==
                           b64encode(Utf8Encode(PrincipalColon \o self.neo4j_password[1]))
                   IN  [s1 EXCEPT !.headers =
                            HeadersUpdate(@, "Authorization", BasicSpace \o credentials)]
              ELSE s1
    IN  Returned("get_neo4j_http_session", self.neo4j_http_url, s2)

\* Lines 171-183: a new session for the graph database's HTTP API; it is
\* used against self.neo4j_http_url.
get_neo4j_http_session(self) ==
    LET s0 == NewSession
        s1 == IF self.use_caddy /\ Truthy(self.api_key)
              THEN [s0 EXCEPT !.headers = HeadersUpdate(@, "X-API-Key", self.api_key[1])]
              ELSE s0
        s2 == IF Truthy(self.neo4j_password)
              THEN LET credentials ==
                           b64encode(Utf8Encode(PrincipalColon \o self.neo4j_password[1]))
                   IN  [s1 EXCEPT !.headers =
                            HeadersUpdate(@, "Authorization", BasicSpace \o credentials)]
              ELSE s1
    IN  Returned("get_neo4j_http_session", self.neo4j_http_url, s2)

\* Lines 200-211: a redis.Redis for localhost and the port REDIS_PORT names
\* when the call is made.
get_redis_client(self, libs, e) ==
    IF "redis" \notin libs THEN Raised("get_redis_client", "ImportError")
    ELSE
        LET text == getenv_default(e, "REDIS_PORT", DefaultRedisPort)
        IN  IF ~IsDigits(text) THEN Raised("get_redis_client", "ValueError")
            ELSE Returned("get_redis_client",
                          [host |-> "localhost", port |-> DecimalValue(text)],
                          [host |-> "localhost", port |-> DecimalValue(text),
                           password |-> self.redis_password,
                           decode_responses |-> TRUE])

AccessorCalls ==
    {"get_ollama_session", "get_chroma_client", "get_neo4j_driver",
     "get_neo4j_http_session", "get_redis_client"}

\* mgr.<call>() while the libraries `libs` are installed
Invoke(self, call, libs, e) ==
    CASE call = "get_ollama_session" -> get_ollama_session(self)
      [] call = "get_chroma_client" -> get_chroma_client(self, libs)
      [] call = "get_neo4j_driver" -> get_neo4j_driver(self, libs)
      [] call = "get_neo4j_http_session" -> get_neo4j_http_session(self)
      [] call = "get_redis_client" -> get_redis_client(self, libs, e)

\* ------------------------------------------------------ test_connections

BackendNames == {"ollama", "chromadb", "neo4j", "redis"}

\* The outcome of the body of one try block: the exception it raised, or the
\* value it stored (as Python would print it), and the drivers left open.
Stored(value) == [raised |-> FALSE, exc |-> "", value |-> value, leaked |-> 0]
Threw(exc, leaked) == [raised |-> TRUE, exc |-> exc, value |-> "", leaked |-> leaked]
BoolText(b) == IF b THEN "True" ELSE "False"

\* Lines 224-226: GET {ollama_url}/api/tags on the gateway's session.
CheckOllama(self, did) ==
    IF get_ollama_session(self).raised THEN Threw(get_ollama_session(self).exc, 0)
    ELSE IF did.ollama = "raise" THEN Threw("ConnectionError", 0)
    ELSE Stored(BoolText(did.ollama = "200"))

\* Lines 232-234: build the client, then heartbeat().
CheckChroma(self, libs, did) ==
    IF get_chroma_client(self, libs).raised
    THEN Threw(get_chroma_client(self, libs).exc, 0)
    ELSE IF did.chromadb = "client_raise" THEN Threw("ValueError", 0)
    ELSE IF did.chromadb = "heartbeat_raise" THEN Threw("ConnectionError", 0)
    ELSE Stored("True")

\* Lines 240-244: build the driver, run RETURN 1 in a session, close the
\* driver; an exception inside the with block skips driver.close().
CheckNeo4j(self, libs, did) ==
    IF get_neo4j_driver(self, libs).raised
    THEN Threw(get_neo4j_driver(self, libs).exc, 0)
    ELSE IF did.neo4j = "driver_raise" THEN Threw("ConfigurationError", 0)
    ELSE IF did.neo4j = "session_raise" THEN Threw("ServiceUnavailable", 1)
    ELSE Stored(BoolText(did.neo4j = "row"))

\* Lines 250-251: build the client, then ping().
CheckRedis(self, libs, e, did) ==
    IF get_redis_client(self, libs, e).raised
    THEN Threw(get_redis_client(self, libs, e).exc, 0)
    ELSE IF did.redis = "ping_raise" THEN Threw("ConnectionError", 0)
    ELSE Stored(BoolText(did.redis = "pong"))

\* The state of a running test_connections call.
Started == [raised |-> FALSE, exc |-> "", results |-> [k \in {} |-> ""],
            attempted |-> {}, open_drivers |-> 0]

\* Variant: the except clause names the network errors only, so any other
\* exception leaves the function.
TryExcept_NetworkErrorsOnly(run, key, attempt) ==
    IF run.raised THEN run
    ELSE IF attempt.raised /\ attempt.exc \notin {"ConnectionError", "ServiceUnavailable"}
    THEN [run EXCEPT !.raised = TRUE, !.exc = attempt.exc,
                     !.attempted = @ \cup {key},
                     !.open_drivers = @ + attempt.leaked]
    ELSE [run EXCEPT
            !.results = (key :> (IF attempt.raised
                                 THEN "Error: " \o attempt.exc
                                 ELSE attempt.value)) @@ @,
            !.attempted = @ \cup {key},
            !.open_drivers = @ + attempt.leaked]

\* One `try: ... except Exception as e: results[key] = f"Error: {str(e)}"`
\* block (lines 223-228, 231-236, 239-246, 249-253): it is reached unless an
\* exception already left the function, and it catches every exception of
\* its body.
TryExcept(run, key, attempt) ==
    IF run.raised THEN run
    ELSE [run EXCEPT
            !.results = (key :> (IF attempt.raised
                                 THEN "Error: " \o attempt.exc
                                 ELSE attempt.value)) @@ @,
            !.attempted = @ \cup {key},
            !.open_drivers = @ + attempt.leaked]

\* Variant: the four checks share one try block, so the first exception ends
\* the checks and the backends after it are reported with that error.
test_connections_OneTry(self, libs, e, did) ==
    LET a1 == CheckOllama(self, did)
        a2 == IF a1.raised THEN a1 ELSE CheckChroma(self, libs, did)
        a3 == IF a2.raised THEN a2 ELSE CheckNeo4j(self, libs, did)
        a4 == IF a3.raised THEN a3 ELSE CheckRedis(self, libs, e, did)
        r1 == TryExcept(Started, "ollama", a1)
        r2 == TryExcept(r1, "chromadb", a2)
        r3 == TryExcept(r2, "neo4j", a3)
    IN  TryExcept(r3, "redis", a4)

\* Lines 220-255: the four checks in order, then `return results`.
test_connections(self, libs, e, did) ==
    LET r1 == TryExcept(Started, "ollama", CheckOllama(self, did))
        r2 == TryExcept(r1, "chromadb", CheckChroma(self, libs, did))
        r3 == TryExcept(r2, "neo4j", CheckNeo4j(self, libs, did))
    IN  TryExcept(r3, "redis", CheckRedis(self, libs, e, did))

\* ---------------------------------------------------- get_client_manager

\* Variant: the cached instance is never reused.
get_client_manager_AlwaysNew(built, current, force_reload, e) ==
    LET r == SCM_init(DefaultArgs, e)
    IN  [gateways |-> Append(built, r.self),
         _client_manager |-> Some(Len(built) + 1),
         suppressed |-> r.suppressed,
         returned |-> Len(built) + 1]

\* Variant: force_reload is ignored once an instance exists.
get_client_manager_ForceIgnored(built, current, force_reload, e) ==
    IF current = None THEN
        LET r == SCM_init(DefaultArgs, e)
        IN  [gateways |-> Append(built, r.self),
             _client_manager |-> Some(Len(built) + 1),
             suppressed |-> r.suppressed,
             returned |-> Len(built) + 1]
    ELSE
        [gateways |-> built, _client_manager |-> current, suppressed |-> 0,
         returned |-> current[1]]

\* Lines 272-275: the default instance is built with the constructor's
\* defaults when there is none or force_reload is set; the global is returned.
\* `built` is every gateway built so far, so a new one is at Len(built) + 1.
get_client_manager(built, current, force_reload, e) ==
    IF current = None \/ force_reload THEN
        LET r == SCM_init(DefaultArgs, e)
        IN  [gateways |-> Append(built, r.self),
             _client_manager |-> Some(Len(built) + 1),
             suppressed |-> r.suppressed,
             returned |-> Len(built) + 1]
    ELSE
        [gateways |-> built, _client_manager |-> current, suppressed |-> 0,
         returned |-> current[1]]

\* Lines 278-296: the module-level get_ollama_session, get_chroma_client,
\* get_neo4j_driver and get_redis_client.
ModuleCalls ==
    {"get_ollama_session", "get_chroma_client", "get_neo4j_driver", "get_redis_client"}

\* Lines 278-296: return get_client_manager().<call>()
module_call(call, built, current, libs, e) ==
    LET r == get_client_manager(built, current, FALSE, e)
    IN  [gateways |-> r.gateways, _client_manager |-> r._client_manager,
         suppressed |-> r.suppressed,
         outcome |-> Invoke(r.gateways[r.returned], call, libs, e)]

\* ------------------------------------------------------ inputs of the model

Libs == {"chromadb", "neo4j", "redis"}

EnvNames ==
    {"API_KEY", "NEO4J_PASSWORD", "REDIS_PASSWORD", "OLLAMA_URL", "CHROMA_URL",
     "NEO4J_URL", "SSL_CERT_PATH", "REDIS_PORT"}

\* The values a variable is set to: "ke", "ne", "re", override URLs (one
\* without a port), "/e.pem", and the ports "6380" and "abc".
EnvValues(name) ==
    CASE name = "API_KEY" -> {<<107, 101>>}
      [] name = "NEO4J_PASSWORD" -> {<<110, 101>>}
      [] name = "REDIS_PASSWORD" -> {<<114, 101>>}
      [] name = "OLLAMA_URL" -> {Url("http", "llm.internal", Some(8080), "")}
      [] name = "CHROMA_URL" -> {Url("http", "vec.internal", None, "")}
      [] name = "NEO4J_URL" -> {Url("https", "graph.internal", Some(7473), "")}
      [] name = "SSL_CERT_PATH" -> {<<47, 101, 46, 112, 101, 109>>}
      [] name = "REDIS_PORT" -> {<<54, 51, 56, 48>>, <<97, 98, 99>>}

EmptyEnv == [n \in EnvNames |-> None]

\* Strings of 1..n code points over a two-letter alphabet: 'p' and U+00E9,
\* whose UTF-8 encoding has two bytes.
PwAlphabet == {112, 233}
RECURSIVE StringsUpTo(_)
StringsUpTo(n) ==
    IF n = 0 THEN {}
    ELSE LET shorter == StringsUpTo(n - 1)
         IN  {<<c>> : c \in PwAlphabet} \cup shorter
             \cup {Append(w, c) : w \in shorter, c \in PwAlphabet}

\* The constructor arguments tried: each credential absent, empty or set
\* ("ka", a graph password, "ra"), both modes, both verify_ssl values, with
\* and without a certificate path ("/a.pem").
CtorArgs ==
    [api_key : {None, Some(<<>>), Some(<<107, 97>>)},
     neo4j_password : {None, Some(<<>>)} \cup {Some(w) : w \in StringsUpTo(MaxPwLen)},
     redis_password : {None, Some(<<>>), Some(<<114, 97>>)},
     use_caddy : BOOLEAN,
     verify_ssl : BOOLEAN,
     ssl_cert_path : {None, Some(<<47, 97, 46, 112, 101, 109>>)}]

\* The arguments of the lifecycle model: credentials from the environment,
\* both modes, both verify_ssl values, with and without a certificate path.
LifeArgs ==
    {[DefaultArgs EXCEPT !.use_caddy = m, !.verify_ssl = v, !.ssl_cert_path = c] :
        m \in BOOLEAN, v \in BOOLEAN, c \in {None, Some(<<47, 97, 46, 112, 101, 109>>)}}

\* The arguments of the connection-test model: the defaults, in both modes.
ModeArgs == {[DefaultArgs EXCEPT !.use_caddy = m] : m \in BOOLEAN}

\* What the four backends do during one test_connections call.
Behaviours ==
    [ollama : {"200", "503", "raise"},
     chromadb : {"ok", "client_raise", "heartbeat_raise"},
     neo4j : {"row", "norow", "driver_raise", "session_raise"},
     redis : {"pong", "nopong", "ping_raise"}]

\* ---------------------------------------------------------------- actions

Init ==
    /\ env = EmptyEnv
    /\ envOps = 0
    /\ installed = Libs
    /\ mgr = None
    /\ ctor = None
    /\ ret = NoCall
    /\ suppressCalls = 0
    /\ gateways = <<>>
    /\ _client_manager = None
    /\ results = None
    /\ probe = None
    /\ heap = <<>>
    /\ ui = <<>>
    /\ threads = <<>>
    /\ chat = [pc |-> "idle", sent |-> <<>>, chat_history |-> <<>>, tokens |-> <<>>,
               streamed |-> <<>>, yields |-> 0, expert_chatbot |-> <<>>,
               expert_input |-> "", context_summary_md |-> ""]
    /\ tester = [pc |-> "idle",
                 results |-> [passed |-> 0, failed |-> 0, tests |-> <<>>],
                 printed |-> <<>>, exit_code |-> None]

\* os.environ[name] = value, or del os.environ[name], for a name among names
SetEnvAmong(names) ==
    /\ envOps < MaxEnvOps
    /\ \E name \in names :
         \E v \in {None} \cup {Some(x) : x \in EnvValues(name)} :
            /\ v # env[name]
            /\ env' = [env EXCEPT ![name] = v]
    /\ envOps' = envOps + 1
    /\ UNCHANGED <<installed, mgr, ctor, ret, suppressCalls, gateways, _client_manager,
                   results, probe, heap, ui, threads, chat, tester>>

SetEnv == SetEnvAmong(EnvNames)

\* mgr = SecureClientManager(**args), for args among argset
ConstructFrom(argset) ==
    /\ mgr = None
    /\ \E args \in argset :
         LET r == SCM_init(args, env)
         IN  /\ ctor' = Some([args |-> args, env |-> env, raised |-> r.raised])
             /\ mgr' = IF r.raised THEN None ELSE Some(r.self)
             /\ suppressCalls' = suppressCalls + r.suppressed
    /\ ret' = NoCall
    /\ UNCHANGED <<env, envOps, installed, gateways, _client_manager, results, probe,
                   heap, ui, threads, chat, tester>>

Construct == ConstructFrom(CtorArgs)

GetOllamaSession ==
    /\ mgr # None
    /\ ret' = get_ollama_session(mgr[1])
    /\ UNCHANGED <<env, envOps, installed, mgr, ctor, suppressCalls, gateways,
                   _client_manager, results, probe, heap, ui, threads, chat, tester>>

GetChromaClient ==
    /\ mgr # None
    /\ ret' = get_chroma_client(mgr[1], installed)
    /\ UNCHANGED <<env, envOps, installed, mgr, ctor, suppressCalls, gateways,
                   _client_manager, results, probe, heap, ui, threads, chat, tester>>

GetNeo4jDriver ==
    /\ mgr # None
    /\ ret' = get_neo4j_driver(mgr[1], installed)
    /\ UNCHANGED <<env, envOps, installed, mgr, ctor, suppressCalls, gateways,
                   _client_manager, results, probe, heap, ui, threads, chat, tester>>

GetNeo4jHttpSession ==
    /\ mgr # None
    /\ ret' = get_neo4j_http_session(mgr[1])
    /\ UNCHANGED <<env, envOps, installed, mgr, ctor, suppressCalls, gateways,
                   _client_manager, results, probe, heap, ui, threads, chat, tester>>

GetRedisClient ==
    /\ mgr # None
    /\ ret' = get_redis_client(mgr[1], installed, env)
    /\ UNCHANGED <<env, envOps, installed, mgr, ctor, suppressCalls, gateways,
                   _client_manager, results, probe, heap, ui, threads, chat, tester>>

Next ==
    \/ SetEnv
    \/ Construct
    \/ GetOllamaSession
    \/ GetChromaClient
    \/ GetNeo4jDriver
    \/ GetNeo4jHttpSession
    \/ GetRedisClient

Spec == Init /\ [][Next]_vars

\* ---- the lifecycle model: several gateways and the module's default one

\* SecureClientManager(**args) once more in the same process.
NewManager ==
    /\ Len(gateways) < MaxGateways
    /\ \E args \in LifeArgs :
         LET r == SCM_init(args, env)
         IN  /\ gateways' = Append(gateways, r.self)
             /\ suppressCalls' = suppressCalls + r.suppressed
    /\ ret' = Returned("SecureClientManager", Len(gateways) + 1, Len(gateways) + 1)
    /\ UNCHANGED <<env, envOps, installed, mgr, ctor, _client_manager, results,
                   probe, heap, ui, threads, chat, tester>>

\* get_client_manager(force_reload)
GetClientManager ==
    /\ \E force_reload \in BOOLEAN :
         LET r == get_client_manager(gateways, _client_manager, force_reload, env)
         IN  /\ Len(r.gateways) <= MaxGateways
             /\ gateways' = r.gateways
             /\ _client_manager' = r._client_manager
             /\ suppressCalls' = suppressCalls + r.suppressed
             /\ ret' = Returned(IF force_reload
                                THEN "get_client_manager(force_reload=True)"
                                ELSE "get_client_manager()",
                                r.returned, r.returned)
    /\ UNCHANGED <<env, envOps, installed, mgr, ctor, results, probe, heap, ui, threads,
                   chat, tester>>

\* one of the module-level functions, called as secure_clients.<call>()
ModuleCall ==
    /\ \E call \in ModuleCalls :
         LET r == module_call(call, gateways, _client_manager, installed, env)
         IN  /\ Len(r.gateways) <= MaxGateways
             /\ gateways' = r.gateways
             /\ _client_manager' = r._client_manager
             /\ suppressCalls' = suppressCalls + r.suppressed
             /\ ret' = r.outcome
    /\ UNCHANGED <<env, envOps, installed, mgr, ctor, results, probe, heap, ui, threads,
                   chat, tester>>

NextLife ==
    \/ SetEnv
    \/ NewManager
    \/ GetClientManager
    \/ ModuleCall

SpecLife == Init /\ [][NextLife]_vars

\* ---- the connection-test model: one gateway, backends that fail at will

InitTC ==
    /\ env = EmptyEnv
    /\ envOps = 0
    /\ installed \in SUBSET Libs
    /\ mgr = None
    /\ ctor = None
    /\ ret = NoCall
    /\ suppressCalls = 0
    /\ gateways = <<>>
    /\ _client_manager = None
    /\ results = None
    /\ probe = None
    /\ heap = <<>>
    /\ ui = <<>>
    /\ threads = <<>>
    /\ chat = [pc |-> "idle", sent |-> <<>>, chat_history |-> <<>>, tokens |-> <<>>,
               streamed |-> <<>>, yields |-> 0, expert_chatbot |-> <<>>,
               expert_input |-> "", context_summary_md |-> ""]
    /\ tester = [pc |-> "idle",
                 results |-> [passed |-> 0, failed |-> 0, tests |-> <<>>],
                 printed |-> <<>>, exit_code |-> None]

ConstructTC == ConstructFrom(ModeArgs)

\* The one variable test_connections reads when it is called.
SetRedisPort == SetEnvAmong({"REDIS_PORT"})

\* mgr.test_connections(), while the backends behave as `did` says
TestConnections ==
    /\ mgr # None
    /\ \E did \in Behaviours :
         /\ results' = Some(test_connections(mgr[1], installed, env, did))
         /\ probe' = Some([did |-> did, env |-> env])
    /\ UNCHANGED <<env, envOps, installed, mgr, ctor, ret, suppressCalls, gateways,
                   _client_manager, heap, ui, threads, chat, tester>>

NextTC ==
    \/ SetRedisPort
    \/ ConstructTC
    \/ TestConnections

SpecTC == InitTC /\ [][NextTC]_vars

\* ---- the object model: one gateway whose sessions are objects with an
\* ---- identity, and client libraries that may be missing

\* Variant: the cache accessor reads its password again from the environment.
AfterCall_RereadsEnv(self, call, e) ==
    IF call = "get_redis_client"
    THEN [self EXCEPT !.redis_password = getenv(e, "REDIS_PASSWORD")]
    ELSE self

\* Lines 71-255: no accessor and no connection check assigns to an attribute
\* of self, so the gateway after a call is the gateway before it.
AfterCall(self, call, e) == self

IsSession(v) == "id" \in DOMAIN v

\* requests.Session() inside a call: a session the call made and returned
\* becomes a new object of the heap. A session that existed before the call
\* is the same object afterwards, with whatever the call wrote into it. Any
\* other outcome leaves the heap alone.
Allocate(r, h) ==
    IF ~r.raised /\ IsSession(r.value[1]) /\ r.value[1].id = 0
    THEN LET s == [r.value[1] EXCEPT !.id = Len(h) + 1]
         IN  [ret |-> [r EXCEPT !.value = Some(s)],
              heap |-> Append(h, [made_by |-> r.call, session |-> s])]
    ELSE IF ~r.raised /\ IsSession(r.value[1])
    THEN [ret |-> r, heap |-> [h EXCEPT ![r.value[1].id].session = r.value[1]]]
    ELSE [ret |-> r, heap |-> h]

\* self.session is a reference: the gateway sees its session as the heap
\* holds it.
Deref(self, h) == [self EXCEPT !.session = h[self.session.id].session]

\* The arguments of the object model: both modes, with no credential passed
\* or all three ("ka", "p", "ra").
ObjArgs ==
    {[DefaultArgs EXCEPT !.use_caddy = m] : m \in BOOLEAN}
    \cup {[DefaultArgs EXCEPT !.use_caddy = m, !.api_key = Some(<<107, 97>>),
                             !.neo4j_password = Some(<<112>>),
                             !.redis_password = Some(<<114, 97>>)] : m \in BOOLEAN}

\* mgr = SecureClientManager(**args); line 58 makes the gateway's session
ConstructObj ==
    /\ mgr = None
    /\ \E args \in ObjArgs :
         LET r == SCM_init(args, env)
             s == [r.self.session EXCEPT !.id = Len(heap) + 1]
         IN  /\ ctor' = Some([args |-> args, env |-> env, raised |-> r.raised])
             /\ mgr' = IF r.raised THEN None
                       ELSE Some([r.self EXCEPT !.session = s])
             /\ heap' = IF r.raised THEN heap
                        ELSE Append(heap, [made_by |-> "__init__", session |-> s])
             /\ suppressCalls' = suppressCalls + r.suppressed
    /\ ret' = NoCall
    /\ UNCHANGED <<env, envOps, installed, gateways, _client_manager, results, probe,
                   ui, threads, chat, tester>>

\* The variables a built gateway's calls could read: the credentials and the
\* cache port.
SetEnvObj == SetEnvAmong({"API_KEY", "NEO4J_PASSWORD", "REDIS_PASSWORD", "REDIS_PORT"})

\* mgr.<call>() for one of the five accessors
CallAccessor ==
    /\ mgr # None
    /\ \E call \in AccessorCalls :
         LET a == Allocate(Invoke(mgr[1], call, installed, env), heap)
         IN  /\ Len(a.heap) <= MaxSessions
             /\ ret' = a.ret
             /\ heap' = a.heap
             /\ mgr' = Some(Deref(AfterCall(mgr[1], call, env), a.heap))
    /\ UNCHANGED <<env, envOps, installed, ctor, suppressCalls, gateways,
                   _client_manager, results, probe, ui, threads, chat, tester>>

\* Every backend answering, and every backend raising.
AllOk == [ollama |-> "200", chromadb |-> "ok", neo4j |-> "row", redis |-> "pong"]
AllRaise ==
    [ollama |-> "raise", chromadb |-> "client_raise", neo4j |-> "driver_raise",
     redis |-> "ping_raise"]

\* mgr.test_connections() in the object model
TestConnectionsObj ==
    /\ mgr # None
    /\ \E did \in {AllOk, AllRaise} :
         /\ results' = Some(test_connections(mgr[1], installed, env, did))
         /\ probe' = Some([did |-> did, env |-> env])
    /\ mgr' = Some(AfterCall(mgr[1], "test_connections", env))
    /\ UNCHANGED <<env, envOps, installed, ctor, ret, suppressCalls, gateways,
                   _client_manager, heap, ui, threads, chat, tester>>

\* The header a caller adds to a session it was handed.
CallerHeader == "X-Caller"

\* session.headers["X-Caller"] = "1", done by the caller to the session that
\* get_neo4j_http_session has just returned to it
CallerMarksSession ==
    /\ mgr # None
    /\ ret.call = "get_neo4j_http_session"
    /\ ~ret.raised
    /\ ~HasHeader(ret.value[1].headers, CallerHeader)
    /\ LET s == [ret.value[1] EXCEPT !.headers = HeadersUpdate(@, CallerHeader, "1")]
           h == [heap EXCEPT ![s.id].session = s]
       IN  /\ ret' = [ret EXCEPT !.value = Some(s)]
           /\ heap' = h
           /\ mgr' = Some(Deref(mgr[1], h))
    /\ UNCHANGED <<env, envOps, installed, ctor, suppressCalls, gateways,
                   _client_manager, results, probe, ui, threads, chat, tester>>

NextObj ==
    \/ SetEnvObj
    \/ ConstructObj
    \/ CallAccessor
    \/ TestConnectionsObj
    \/ CallerMarksSession

SpecObj == InitTC /\ [][NextObj]_vars

\* ---- the wizard UI (src/ui/app.py): each open page has its own component
\* ---- values and its own gr.State

\* Text is a sequence of tokens, a markdown document a sequence of lines.
\* "U+25CB" and "U+25CF" are the open and the filled circle, "U+2713" the
\* check mark, "U+2013" the en dash.
WIZARD_STEPS ==
    <<"Define Goal", "Select Scope", "Choose Operations", "Review & Execute",
      "Explanation & Export">>

\* str(n) for the numbers the wizard prints
str(n) == CASE n = 0 -> "0" [] n = 1 -> "1" [] n = 2 -> "2" [] n = 3 -> "3"
            [] n = 4 -> "4" [] n = 5 -> "5" [] n = 6 -> "6"

min(a, b) == IF a <= b THEN a ELSE b
max(a, b) == IF a >= b THEN a ELSE b

\* Variant: the branch for the steps already done is missing, so they are
\* listed like the steps to come, with their check-mark symbol.
render_step_list_NoStrike(active_idx) ==
    LET symbols == [i \in 0..4 |->
                       IF i = active_idx THEN "U+25CF"
                       ELSE IF i < active_idx THEN "U+2713" ELSE "U+25CB"]
        bullet(i) == <<symbols[i], " ", str(i + 1), ". ", WIZARD_STEPS[i + 1]>>
        line(i) == IF i = active_idx THEN <<"- ", "**">> \o bullet(i) \o <<"**">>
                   ELSE <<"- ">> \o bullet(i)
    IN  <<<<"### Steps">>>> \o [k \in 1..Len(WIZARD_STEPS) |-> line(k - 1)]

\* Lines 336-354; Python's index i is position i + 1 here.
render_step_list(active_idx) ==
    LET symbols == [i \in 0..4 |->
                       IF i = active_idx THEN "U+25CF"
                       ELSE IF i < active_idx THEN "U+2713" ELSE "U+25CB"]
        bullet(i) == <<symbols[i], " ", str(i + 1), ". ", WIZARD_STEPS[i + 1]>>
        line(i) == IF i = active_idx THEN <<"- ", "**">> \o bullet(i) \o <<"**">>
                   ELSE IF i < active_idx
                   THEN <<"- ", "~~", WIZARD_STEPS[i + 1], "~~", " ", "U+2713">>
                   ELSE <<"- ">> \o bullet(i)
    IN  <<<<"### Steps">>>> \o [k \in 1..Len(WIZARD_STEPS) |-> line(k - 1)]

\* Variant: 'next' on the last step starts over at the first.
wizard_nav_Wraps(step, direction) ==
    LET s == IF direction = "next" THEN (step + 1) % Len(WIZARD_STEPS)
             ELSE IF direction = "back" THEN max(step - 1, 0)
             ELSE step
    IN  [step |-> s,
         step_md |-> render_step_list(s),
         step_indicator |-> <<"**", "Step ", str(s + 1), " of ",
                              str(Len(WIZARD_STEPS)), " U+2013 ",
                              WIZARD_STEPS[s + 1], "**">>,
         updates |-> [k \in 1..Len(WIZARD_STEPS) |-> [visible |-> k = s + 1]]]

\* Variant: the panel of the step that was left is not hidden.
wizard_nav_OldPanelStays(step, direction) ==
    LET s == IF direction = "next" THEN min(step + 1, Len(WIZARD_STEPS) - 1)
             ELSE IF direction = "back" THEN max(step - 1, 0)
             ELSE step
    IN  [step |-> s,
         step_md |-> render_step_list(s),
         step_indicator |-> <<"**", "Step ", str(s + 1), " of ",
                              str(Len(WIZARD_STEPS)), " U+2013 ",
                              WIZARD_STEPS[s + 1], "**">>,
         updates |-> [k \in 1..Len(WIZARD_STEPS) |->
                         [visible |-> k = s + 1 \/ k = step + 1]]]

\* Lines 357-376: the new step, the step list, the indicator text and one
\* visibility update for each of the five panels.
wizard_nav(step, direction) ==
    LET s == IF direction = "next" THEN min(step + 1, Len(WIZARD_STEPS) - 1)
             ELSE IF direction = "back" THEN max(step - 1, 0)
             ELSE step
    IN  [step |-> s,
         step_md |-> render_step_list(s),
         step_indicator |-> <<"**", "Step ", str(s + 1), " of ",
                              str(Len(WIZARD_STEPS)), " U+2013 ",
                              WIZARD_STEPS[s + 1], "**">>,
         updates |-> [k \in 1..Len(WIZARD_STEPS) |-> [visible |-> k = s + 1]]]

\* Variant: the expert container is shown and the wizard is never hidden.
toggle_mode_GuidedStays(mode) ==
    <<[visible |-> TRUE], [visible |-> mode = "Expert Ops Mode"]>>

\* Lines 438-445: the updates of guided_group and expert_group.
toggle_mode(mode) ==
    <<[visible |-> mode = "Guided Wizard"], [visible |-> mode = "Expert Ops Mode"]>>

Modes == {"Guided Wizard", "Expert Ops Mode"}

\* The component values of a page as the Blocks are declared: lines 495-516
\* (mode_radio, guided_group, wizard_step_state, steps_md,
\* step_indicator_md), 519-644 (the panels), 720-722 (step_status_md) and 763
\* (expert_group).
Page ==
    [mode_radio |-> "Guided Wizard",
     guided_group |-> TRUE,
     expert_group |-> FALSE,
     wizard_step_state |-> 0,
     steps_md |-> render_step_list(0),
     step_indicator_md |-> <<"**", "Step ", "1", " of ", str(Len(WIZARD_STEPS)),
                             " U+2013 ", WIZARD_STEPS[1], "**">>,
     step_status_md |-> <<"Step ", "1", " of ", "5", " U+2013 ", "Define Goal">>,
     panels |-> <<TRUE, FALSE, FALSE, FALSE, FALSE>>]

\* Lines 726-754: the outputs of back_btn.click and next_btn.click are
\* wizard_step_state, steps_md, step_status_md and the five panels.
Click(page, direction) ==
    LET r == wizard_nav(page.wizard_step_state, direction)
    IN  [page EXCEPT !.wizard_step_state = r.step,
                     !.steps_md = r.step_md,
                     !.step_status_md = r.step_indicator,
                     !.panels = [k \in 1..Len(WIZARD_STEPS) |-> r.updates[k].visible]]

\* The variables of the client gateway and its callers, which the UI never
\* touches.
backendVars ==
    <<env, envOps, installed, mgr, ctor, ret, suppressCalls, gateways,
      _client_manager, results, probe, heap, threads>>

\* a browser loads the page
OpenPage ==
    /\ Len(ui) < MaxPages
    /\ ui' = Append(ui, Page)
    /\ UNCHANGED <<backendVars, chat, tester>>

\* back_btn.click on one page
ClickBack ==
    /\ \E c \in DOMAIN ui : ui' = [ui EXCEPT ![c] = Click(@, "back")]
    /\ UNCHANGED <<backendVars, chat, tester>>

\* next_btn.click on one page
ClickNext ==
    /\ \E c \in DOMAIN ui : ui' = [ui EXCEPT ![c] = Click(@, "next")]
    /\ UNCHANGED <<backendVars, chat, tester>>

\* mode_radio.change on one page, lines 1045-1049
ChangeMode ==
    /\ \E c \in DOMAIN ui :
         \E mode \in Modes \ {ui[c].mode_radio} :
            LET r == toggle_mode(mode)
            IN  ui' = [ui EXCEPT ![c] = [@ EXCEPT !.mode_radio = mode,
                                                  !.guided_group = r[1].visible,
                                                  !.expert_group = r[2].visible]]
    /\ UNCHANGED <<backendVars, chat, tester>>

NextWizard ==
    \/ OpenPage
    \/ ClickBack
    \/ ClickNext
    \/ ChangeMode

SpecWizard == Init /\ [][NextWizard]_vars

\* ---- the threaded model: get_client_manager run by several threads, one
\* ---- statement at a time, with no lock (the module has none)

\* Line 262: a thread enters get_client_manager(force_reload).
Enter(force_reload) ==
    [pc |-> "test", force_reload |-> force_reload, made |-> None, returned |-> None]

\* a new thread calls get_client_manager
ThreadCall ==
    /\ Len(threads) < MaxThreads
    /\ \E force_reload \in BOOLEAN : threads' = Append(threads, Enter(force_reload))
    /\ UNCHANGED <<env, envOps, installed, mgr, ctor, ret, suppressCalls, gateways,
                   _client_manager, results, probe, heap, ui, chat, tester>>

\* Line 273: the test `_client_manager is None or force_reload`
ThreadTest ==
    /\ \E t \in DOMAIN threads :
         /\ threads[t].pc = "test"
         /\ threads' = [threads EXCEPT ![t].pc =
                           IF _client_manager = None \/ threads[t].force_reload
                           THEN "construct" ELSE "return"]
    /\ UNCHANGED <<env, envOps, installed, mgr, ctor, ret, suppressCalls, gateways,
                   _client_manager, results, probe, heap, ui, chat, tester>>

\* Line 274, right-hand side: SecureClientManager()
ThreadConstruct ==
    /\ \E t \in DOMAIN threads :
         /\ threads[t].pc = "construct"
         /\ LET r == SCM_init(DefaultArgs, env)
            IN  /\ gateways' = Append(gateways, r.self)
                /\ suppressCalls' = suppressCalls + r.suppressed
                /\ threads' = [threads EXCEPT ![t].pc = "assign",
                                              ![t].made = Some(Len(gateways) + 1)]
    /\ UNCHANGED <<env, envOps, installed, mgr, ctor, ret, _client_manager, results,
                   probe, heap, ui, chat, tester>>

\* Line 274, the store: _client_manager = <the new instance>
ThreadAssign ==
    /\ \E t \in DOMAIN threads :
         /\ threads[t].pc = "assign"
         /\ _client_manager' = threads[t].made
         /\ threads' = [threads EXCEPT ![t].pc = "return"]
    /\ UNCHANGED <<env, envOps, installed, mgr, ctor, ret, suppressCalls, gateways,
                   results, probe, heap, ui, chat, tester>>

\* Line 275: return _client_manager, read when the statement runs
ThreadReturn ==
    /\ \E t \in DOMAIN threads :
         /\ threads[t].pc = "return"
         /\ threads' = [threads EXCEPT ![t].pc = "done",
                                       ![t].returned = _client_manager]
    /\ UNCHANGED <<env, envOps, installed, mgr, ctor, ret, suppressCalls, gateways,
                   _client_manager, results, probe, heap, ui, chat, tester>>

NextThreads ==
    \/ ThreadCall
    \/ ThreadTest
    \/ ThreadConstruct
    \/ ThreadAssign
    \/ ThreadReturn

SpecThreads == Init /\ [][NextThreads]_vars

\* ---- the expert chat (src/ui/app.py): the generator expert_chat_stream,
\* ---- resumed by Gradio until it is exhausted

\* Lines 390-401: the canned reply, as code points.
full_reply ==
    <<128269, 32, 42, 42, 65, 110, 97, 108, 121, 115, 105, 115, 32, 105, 110,
      105, 116, 105, 97, 116, 101, 100, 46, 46, 46, 42, 42, 10, 10, 73, 39, 109,
      32, 97, 110, 97, 108, 121, 122, 105, 110, 103, 32, 121, 111, 117, 114, 32,
      114, 101, 113, 117, 101, 115, 116, 32, 117, 115, 105, 110, 103, 32, 97,
      118, 97, 105, 108, 97, 98, 108, 101, 32, 116, 111, 111, 108, 115, 58, 10,
      45, 32, 128202, 32, 42, 42, 71, 114, 97, 112, 104, 32, 81, 117, 101, 114,
      121, 42, 42, 58, 32, 67, 104, 101, 99, 107, 105, 110, 103, 32, 101, 110,
      116, 105, 116, 121, 32, 114, 101, 108, 97, 116, 105, 111, 110, 115, 104,
      105, 112, 115, 32, 105, 110, 32, 78, 101, 111, 52, 106, 10, 45, 32, 9939,
      65039, 32, 42, 42, 66, 108, 111, 99, 107, 99, 104, 97, 105, 110, 32, 83,
      68, 75, 42, 42, 58, 32, 70, 101, 116, 99, 104, 105, 110, 103, 32, 111,
      110, 45, 99, 104, 97, 105, 110, 32, 100, 97, 116, 97, 10, 45, 32, 128218,
      32, 42, 42, 75, 110, 111, 119, 108, 101, 100, 103, 101, 32, 66, 97, 115,
      101, 42, 42, 58, 32, 83, 101, 97, 114, 99, 104, 105, 110, 103, 32, 67,
      104, 114, 111, 109, 97, 32, 102, 111, 114, 32, 114, 101, 108, 101, 118,
      97, 110, 116, 32, 100, 111, 99, 115, 10, 10, 42, 42, 80, 114, 101, 108,
      105, 109, 105, 110, 97, 114, 121, 32, 102, 105, 110, 100, 105, 110, 103,
      115, 58, 42, 42, 10, 8226, 32, 70, 111, 117, 110, 100, 32, 51, 32, 114,
      101, 108, 97, 116, 101, 100, 32, 101, 110, 116, 105, 116, 105, 101, 115,
      32, 105, 110, 32, 116, 104, 101, 32, 103, 114, 97, 112, 104, 10, 8226, 32,
      84, 114, 97, 110, 115, 97, 99, 116, 105, 111, 110, 32, 118, 111, 108, 117,
      109, 101, 32, 105, 110, 100, 105, 99, 97, 116, 101, 115, 32, 110, 111,
      114, 109, 97, 108, 32, 97, 99, 116, 105, 118, 105, 116, 121, 10, 8226, 32,
      67, 111, 110, 116, 114, 97, 99, 116, 32, 109, 101, 116, 97, 100, 97, 116,
      97, 32, 114, 101, 116, 114, 105, 101, 118, 101, 100, 32, 115, 117, 99, 99,
      101, 115, 115, 102, 117, 108, 108, 121, 10, 10, 95, 84, 104, 105, 115, 32,
      105, 115, 32, 97, 32, 112, 108, 97, 99, 101, 104, 111, 108, 100, 101, 114,
      32, 114, 101, 115, 112, 111, 110, 115, 101, 46, 32, 73, 110, 32, 112, 114,
      111, 100, 117, 99, 116, 105, 111, 110, 44, 32, 97, 99, 116, 117, 97, 108,
      32, 77, 67, 80, 32, 116, 111, 111, 108, 115, 32, 119, 111, 117, 108, 100,
      32, 98, 101, 32, 99, 97, 108, 108, 101, 100, 46, 95>>

\* str.split(" "): the pieces between single spaces, empty pieces included
RECURSIVE split(_)
split(s) ==
    IF \A k \in DOMAIN s : s[k] # 32 THEN <<s>>
    ELSE LET k == CHOOSE i \in DOMAIN s : s[i] = 32 /\ \A j \in 1..(i - 1) : s[j] # 32
         IN  <<SubSeq(s, 1, k - 1)>> \o split(SubSeq(s, k + 1, Len(s)))

ReplyTokens == split(full_reply)

\* Lines 382 and 408-419: the two texts of the context panel.
ContextView == "### Context View"
LiveContextUpdate == "### Live Context Update"

\* What a yield hands to Gradio for expert_chatbot, expert_input and
\* context_summary_md: the chat history as it is then, gr.update(value=""),
\* and the context text.
Yield(g, history, context) ==
    [g EXCEPT !.yields = @ + 1,
              !.expert_chatbot = history,
              !.expert_input = "",
              !.context_summary_md = context]

\* Variant: `streamed = token + " "`, so each yield shows the last token only.
resume_LastTokenOnly(g) ==
    IF g.pc = "start" /\ g.sent.user_msg = ""
    THEN [Yield(g, g.sent.chat_history, ContextView) EXCEPT !.pc = "return"]
    ELSE IF g.pc = "return" THEN [g EXCEPT !.pc = "done"]
    ELSE LET entered == g.pc = "start"
             history == IF entered
                        THEN Append(g.sent.chat_history, <<g.sent.user_msg, <<>>>>)
                        ELSE g.chat_history
             tokens == IF entered THEN ReplyTokens ELSE g.tokens
         IN  IF tokens = <<>> THEN [g EXCEPT !.pc = "done"]
             ELSE LET streamed == tokens[1] \o <<32>>
                      shown == [history EXCEPT ![Len(history)][2] = streamed]
                  IN  [Yield(g, shown, LiveContextUpdate) EXCEPT
                          !.pc = "loop",
                          !.chat_history = shown,
                          !.tokens = Tail(tokens),
                          !.streamed = streamed]

\* Lines 379-421: the generator run from where it stands to its next yield,
\* or to its end. "start" is before the first statement, "return" after the
\* yield of line 382, "loop" after the yield of line 420.
resume(g) ==
    IF g.pc = "start" /\ g.sent.user_msg = ""
    THEN [Yield(g, g.sent.chat_history, ContextView) EXCEPT !.pc = "return"]
    ELSE IF g.pc = "return" THEN [g EXCEPT !.pc = "done"]
    ELSE LET entered == g.pc = "start"
             history == IF entered
                        THEN Append(g.sent.chat_history, <<g.sent.user_msg, <<>>>>)
                        ELSE g.chat_history
             tokens == IF entered THEN ReplyTokens ELSE g.tokens
             before == IF entered THEN <<>> ELSE g.streamed
         IN  IF tokens = <<>> THEN [g EXCEPT !.pc = "done"]
             ELSE LET streamed == before \o tokens[1] \o <<32>>
                      shown == [history EXCEPT ![Len(history)][2] = streamed]
                  IN  [Yield(g, shown, LiveContextUpdate) EXCEPT
                          !.pc = "loop",
                          !.chat_history = shown,
                          !.tokens = Tail(tokens),
                          !.streamed = streamed]

\* What the user types into expert_input: nothing, or a question.
Messages == {"", "balance?", "trace tx"}

\* the user types into expert_input while no stream is running
TypeMessage ==
    /\ chat.pc \in {"idle", "done"}
    /\ \E user_msg \in Messages :
         /\ user_msg # chat.expert_input
         /\ chat' = [chat EXCEPT !.pc = "idle", !.expert_input = user_msg]
    /\ UNCHANGED <<backendVars, ui, tester>>

\* Lines 1012-1016: expert_send_btn.click calls expert_chat_stream with the
\* values of expert_chatbot and expert_input.
SendClick ==
    /\ chat.pc \in {"idle", "done"}
    /\ chat.expert_input # "" => Len(chat.expert_chatbot) < MaxHistory
    /\ chat' = [chat EXCEPT !.pc = "start",
                            !.sent = [chat_history |-> chat.expert_chatbot,
                                      user_msg |-> chat.expert_input],
                            !.chat_history = <<>>,
                            !.tokens = <<>>,
                            !.streamed = <<>>,
                            !.yields = 0]
    /\ UNCHANGED <<backendVars, ui, tester>>

\* Gradio asks the generator for its next value
StreamStep ==
    /\ chat.pc \in {"start", "return", "loop"}
    /\ chat' = resume(chat)
    /\ UNCHANGED <<backendVars, ui, tester>>

NextChat ==
    \/ TypeMessage
    \/ SendClick
    \/ StreamStep

\* Gradio keeps asking until the generator is exhausted.
SpecChat == Init /\ [][NextChat]_vars /\ WF_vars(StreamStep)

\* ------------------------------------------------ scripts/test_services.py

\* What one HTTP request of the script meets: the gateway answers with a
\* status code, or requests raises (connection refused, timeout, TLS failure).
StatusCodes == {200, 401}
Raises == None
Outcomes == {Raises} \cup {Some(status_code) : status_code \in StatusCodes}

\* Lines 31-57: ServiceTester(), of which the run uses the results and what
\* print_header has printed.  pc is the statement of run_all_tests that is
\* next; "raised" is run_all_tests left by an exception nobody caught.
ServiceTester ==
    [pc |-> "idle", results |-> [passed |-> 0, failed |-> 0, tests |-> <<>>],
     printed |-> <<>>, exit_code |-> None]

\* Lines 59-63
print_header(self, text) == [self EXCEPT !.printed = Append(@, text)]

\* the two counters of self.results
CountPassed(self) == [self EXCEPT !.results.passed = @ + 1]
CountFailed(self) == [self EXCEPT !.results.failed = @ + 1]

\* an exception leaves the method and, through run_all_tests, main()
Propagate(self) == [self EXCEPT !.pc = "raised"]

\* Lines 65-135: test(name, method, endpoint, ...), with the request inside
\* try/except Exception.  Every call of the script leaves expected_status at
\* its default.
test(self, name, response, expected_status) ==
    IF response = Raises
    THEN [CountFailed(self) EXCEPT !.results.tests =
              Append(@, [name |-> name, status |-> "ERROR",
                         error |-> Some(<<"ConnectionError">>)])]
    ELSE IF response[1] = expected_status
    THEN [CountPassed(self) EXCEPT !.results.tests =
              Append(@, [name |-> name, status |-> "PASS", error |-> None])]
    ELSE [CountFailed(self) EXCEPT !.results.tests =
              Append(@, [name |-> name, status |-> "FAIL",
                         error |-> Some(<<"Status", response[1]>>)])]

\* self.test(...) for each name in turn, one response per call
RECURSIVE tests(_, _, _)
tests(self, names, responses) ==
    IF names = <<>> THEN self
    ELSE tests(test(self, Head(names), Head(responses), 200),
               Tail(names), Tail(responses))

\* Lines 137-151: the request is made outside any try block.
test_health(self, response) ==
    LET s == print_header(self, "Health Check")
    IN  IF response = Raises THEN Propagate(s)
        ELSE IF response[1] = 200 THEN CountPassed(s)
        ELSE CountFailed(s)

\* Lines 153-178
OllamaTests == <<"List models", "Show model info", "Generate text">>

test_ollama(self, responses) ==
    tests(print_header(self, "Testing Ollama"), OllamaTests, responses)

\* Lines 180-238
ChromaTests ==
    <<"Heartbeat", "Version", "List collections", "Create collection",
      "Add documents", "Query collection", "Count documents", "Delete collection">>

test_chromadb(self, responses) ==
    tests(print_header(self, "Testing ChromaDB (API v2)"), ChromaTests, responses)

\* Lines 240-269
Neo4jTests == <<"Service root", "Database info", "Execute Cypher query">>

test_neo4j(self, responses) ==
    tests(print_header(self, "Testing Neo4j"), Neo4jTests, responses)

\* What the key-value store does in one run of test_redis: whether redis can be
\* imported, and for each command whether it gives the value the script looks
\* for ("ok"), another value ("bad"), or raises.
RedisRuns ==
    [importable : BOOLEAN, ping : {"ok", "bad", "raises"}, set : {"ok", "raises"},
     get : {"ok", "bad", "raises"}, delete : {"ok", "raises"},
     info : {"ok", "bad", "raises"}]

\* Lines 271-319: the whole body is inside try; ImportError counts nothing,
\* any other exception counts one failure and ends the method.
test_redis(self, redis) ==
    LET s0 == print_header(self, "Testing Redis (Direct Connection)")
        s1 == IF redis.ping = "ok" THEN CountPassed(s0) ELSE CountFailed(s0)
        s2 == IF redis.get = "ok" THEN CountPassed(s1) ELSE CountFailed(s1)
        s3 == IF redis.info = "ok" THEN CountPassed(s2) ELSE CountFailed(s2)
    IN  IF ~redis.importable THEN s0
        ELSE IF redis.ping = "raises" THEN CountFailed(s0)
        ELSE IF redis.set = "raises" \/ redis.get = "raises" THEN CountFailed(s1)
        ELSE IF redis.get = "ok" /\ redis.delete = "raises" THEN CountFailed(s2)
        ELSE IF redis.info = "raises" THEN CountFailed(s2)
        ELSE s3

\* Lines 321-348: two requests, both outside any try block, both expecting 401.
test_authentication(self, responses) ==
    LET s0 == print_header(self, "Testing Authentication")
        s1 == IF responses[1] = Some(401) THEN CountPassed(s0) ELSE CountFailed(s0)
    IN  IF responses[1] = Raises THEN Propagate(s0)
        ELSE IF responses[2] = Raises THEN Propagate(s1)
        ELSE IF responses[2] = Some(401) THEN CountPassed(s1)
        ELSE CountFailed(s1)

\* Lines 350-369
print_summary(self) == print_header(self, "Test Summary")

\* Lines 371-385: run_all_tests, statement by statement.  The statement after
\* `at` is next unless an exception is on its way out.
RunOrder ==
    <<"test_health", "test_ollama", "test_chromadb", "test_neo4j", "test_redis",
      "test_authentication", "print_summary">>

RECURSIVE IndexIn(_, _)
IndexIn(x, seq) == IF Head(seq) = x THEN 1 ELSE 1 + IndexIn(x, Tail(seq))

Then(self, at) ==
    IF self.pc = "raised" THEN self
    ELSE [self EXCEPT !.pc = RunOrder[IndexIn(at, RunOrder) + 1]]

\* one statement of run_all_tests has run and left the tester as `new`
Ran(at, new) ==
    /\ new.results.failed <= MaxFailed
    /\ tester' = Then(new, at)
    /\ UNCHANGED <<backendVars, ui, chat>>

\* Lines 388-392: main() builds the tester and calls run_all_tests.
Main ==
    /\ tester.pc = "idle"
    /\ tester' = [ServiceTester EXCEPT !.pc = RunOrder[1]]
    /\ UNCHANGED <<backendVars, ui, chat>>

TestHealth ==
    /\ tester.pc = "test_health"
    /\ \E response \in Outcomes : Ran("test_health", test_health(tester, response))

TestOllama ==
    /\ tester.pc = "test_ollama"
    /\ \E responses \in [1..Len(OllamaTests) -> Outcomes] :
         Ran("test_ollama", test_ollama(tester, responses))

TestChromadb ==
    /\ tester.pc = "test_chromadb"
    /\ \E responses \in [1..Len(ChromaTests) -> Outcomes] :
         Ran("test_chromadb", test_chromadb(tester, responses))

TestNeo4j ==
    /\ tester.pc = "test_neo4j"
    /\ \E responses \in [1..Len(Neo4jTests) -> Outcomes] :
         Ran("test_neo4j", test_neo4j(tester, responses))

TestRedis ==
    /\ tester.pc = "test_redis"
    /\ \E redis \in RedisRuns : Ran("test_redis", test_redis(tester, redis))

TestAuthentication ==
    /\ tester.pc = "test_authentication"
    /\ \E responses \in [1..2 -> Outcomes] :
         Ran("test_authentication", test_authentication(tester, responses))

\* Lines 382-385: the summary, then the exit code.
Return ==
    /\ tester.pc = "print_summary"
    /\ tester' = [print_summary(tester) EXCEPT
                      !.pc = "returned",
                      !.exit_code = Some(IF tester.results.failed = 0 THEN 0 ELSE 1)]
    /\ UNCHANGED <<backendVars, ui, chat>>

NextTester ==
    \/ Main
    \/ TestHealth
    \/ TestOllama
    \/ TestChromadb
    \/ TestNeo4j
    \/ TestRedis
    \/ TestAuthentication
    \/ Return

SpecTester == Init /\ [][NextTester]_vars

\* ------------------------------------------------- vocabulary of the claims

\* The inverse conversions, used to read back what the code encoded.
B64Value(c) ==
    IF c >= 65 /\ c <= 90 THEN c - 65
    ELSE IF c >= 97 /\ c <= 122 THEN c - 71
    ELSE IF c >= 48 /\ c <= 57 THEN c + 4
    ELSE IF c = 43 THEN 62 ELSE 63

RECURSIVE b64decode(_)
b64decode(s) ==
    IF Len(s) < 4 THEN <<>>
    ELSE LET v1 == B64Value(s[1])
             v2 == B64Value(s[2])
             v3 == B64Value(s[3])
             v4 == B64Value(s[4])
         IN  IF s[3] = 61 THEN <<v1 * 4 + (v2 \div 16)>>
             ELSE IF s[4] = 61
             THEN <<v1 * 4 + (v2 \div 16), (v2 % 16) * 16 + (v3 \div 4)>>
             ELSE <<v1 * 4 + (v2 \div 16), (v2 % 16) * 16 + (v3 \div 4),
                    (v3 % 4) * 64 + v4>>
                  \o b64decode(SubSeq(s, 5, Len(s)))

RECURSIVE Utf8Decode(_)
Utf8Decode(b) ==
    IF b = <<>> THEN <<>>
    ELSE IF b[1] < 128 THEN <<b[1]>> \o Utf8Decode(SubSeq(b, 2, Len(b)))
    ELSE IF b[1] < 224
    THEN <<(b[1] - 192) * 64 + (b[2] - 128)>> \o Utf8Decode(SubSeq(b, 3, Len(b)))
    ELSE <<(b[1] - 224) * 4096 + (b[2] - 128) * 64 + (b[3] - 128)>>
         \o Utf8Decode(SubSeq(b, 4, Len(b)))

StartsWith(s, prefix) ==
    Len(s) >= Len(prefix) /\ SubSeq(s, 1, Len(prefix)) = prefix

\* What the caller configured, read from the constructor call itself: the
\* argument when it is a non-empty string, else the environment variable as
\* it was when the gateway was built.
Configured(arg, name) ==
    IF Truthy(ctor[1].args[arg]) THEN ctor[1].args[arg] ELSE ctor[1].env[name]
HasConfigured(arg, name) == Truthy(Configured(arg, name))

Built == mgr # None /\ ctor # None
SessionCalls == {"get_ollama_session", "get_neo4j_http_session"}
ReturnedBy(calls) == Built /\ ret.call \in calls /\ ~ret.raised

\* A step that is a call of one of the accessors `calls` on the gateway.
CallStep(calls) == Built /\ mgr' = mgr /\ env' = env /\ ret'.call \in calls

\* The gateway the same constructor call would have built in the other mode.
OtherMode == SCM_init([ctor[1].args EXCEPT !.use_caddy = ~@], ctor[1].env).self
HostPort(u) == <<u.host, u.port>>

\* --------------------------------------------------------------- claims

IsError(text) == StartsWith(text, "Error: ")

\* C1: test_connections returns, whatever each backend does (success, a
\* non-200 status, an exception while the client is built or during the
\* call), and the mapping it returns has exactly the keys ollama, chromadb,
\* neo4j and redis.
C1_TestConnectionsAlwaysReturns ==
    results # None =>
        /\ ~results[1].raised
        /\ DOMAIN results[1].results = BackendNames

\* No library installed and every backend raising: four errors come back.
C1_Witness ==
    /\ results # None
    /\ installed = {}
    /\ probe[1].did = AllRaise
    /\ ~results[1].raised
    /\ \A k \in BackendNames : IsError(results[1].results[k])

\* What decides a backend's own outcome in a call: what the backend did and,
\* for redis, the REDIS_PORT the client was built from.
OwnOutcome(k, p) ==
    <<p.did[k], IF k = "redis" THEN p.env["REDIS_PORT"] ELSE None>>

\* C2: every call attempts all four checks, and between two calls on the
\* same gateway a backend whose own outcome is the same gets the same value,
\* whatever the other backends did.
C2_ChecksAreIsolated ==
    [][(results' # None /\ mgr' = mgr) =>
        /\ results'[1].attempted = BackendNames
        /\ results # None =>
             \A k \in BackendNames :
                OwnOutcome(k, probe[1]) = OwnOutcome(k, probe'[1]) =>
                    /\ k \in DOMAIN results[1].results
                    /\ k \in DOMAIN results'[1].results
                    /\ results'[1].results[k] = results[1].results[k]]_vars

\* The first three checks raise and the redis check still succeeds.
C2_Witness ==
    /\ results # None
    /\ probe[1].did.ollama = "raise"
    /\ probe[1].did.chromadb = "client_raise"
    /\ probe[1].did.neo4j = "session_raise"
    /\ results[1].results["redis"] = "True"

\* C3: a session handed out by get_ollama_session or get_neo4j_http_session
\* carries X-API-Key, with the configured key as its value, exactly when the
\* gateway is proxied and an API key is configured.
C3_ApiKeyHeaderIffProxiedAndKey ==
    ReturnedBy(SessionCalls) =>
        LET headers == ret.value[1].headers
            wanted == ctor[1].args.use_caddy /\ HasConfigured("api_key", "API_KEY")
        IN  /\ HasHeader(headers, "X-API-Key") <=> wanted
            /\ wanted => headers["X-API-Key"] = Configured("api_key", "API_KEY")[1]

C3_Witness ==
    /\ ReturnedBy({"get_neo4j_http_session"})
    /\ ctor[1].args.use_caddy
    /\ HasConfigured("api_key", "API_KEY")
    /\ HasHeader(ret.value[1].headers, "X-API-Key")

\* C4: the bolt URL of get_neo4j_driver and the host and port of
\* get_redis_client are those the other mode's gateway, built from the same
\* arguments and environment, gives; the bolt endpoint is none of the
\* gateway's proxied HTTP endpoints.
C4_BoltAndRedisIgnoreMode ==
    [][CallStep({"get_neo4j_driver", "get_redis_client"}) =>
        LET twin == IF ret'.call = "get_neo4j_driver"
                    THEN get_neo4j_driver(OtherMode, installed)
                    ELSE get_redis_client(OtherMode, installed, env)
            proxied == IF mgr[1].use_caddy THEN mgr[1] ELSE OtherMode
        IN  /\ ret'.raised = twin.raised
            /\ ret'.target = twin.target
            /\ (ret'.call = "get_neo4j_driver" /\ ~ret'.raised) =>
                  HostPort(ret'.target[1]) \notin
                      {HostPort(proxied.ollama_url), HostPort(proxied.chroma_url),
                       HostPort(proxied.neo4j_http_url)}]_vars

C4_Witness ==
    /\ ReturnedBy({"get_redis_client"})
    /\ mgr[1].use_caddy
    /\ env["REDIS_PORT"] # None
    /\ ret.target[1].port = 6380

\* C5: when a graph password is configured, the Authorization header of the
\* session of get_neo4j_http_session is "Basic " followed by base64 text
\* that decodes to "neo4j:" followed by exactly that password.
C5_BasicAuthRoundTrip ==
    (ReturnedBy({"get_neo4j_http_session"})
        /\ HasConfigured("neo4j_password", "NEO4J_PASSWORD")) =>
        LET headers == ret.value[1].headers
        IN  /\ HasHeader(headers, "Authorization")
            /\ StartsWith(headers["Authorization"], BasicSpace)
            /\ Utf8Decode(b64decode(SubSeq(headers["Authorization"],
                                           Len(BasicSpace) + 1,
                                           Len(headers["Authorization"]))))
                 = PrincipalColon \o Configured("neo4j_password", "NEO4J_PASSWORD")[1]

\* A two-code-point password with a two-byte character: "neo4j:" plus three
\* bytes, nine bytes, so base64 text without padding.
C5_Witness ==
    /\ ReturnedBy({"get_neo4j_http_session"})
    /\ ctor[1].args.neo4j_password = Some(<<112, 233>>)
    /\ HasHeader(ret.value[1].headers, "Authorization")

\* C6 (as claimed): every session of get_neo4j_http_session carries a Basic
\* Authorization header, whatever the gateway's configuration.
C6_AlwaysBasicAuth ==
    ReturnedBy({"get_neo4j_http_session"}) =>
        /\ HasHeader(ret.value[1].headers, "Authorization")
        /\ StartsWith(ret.value[1].headers["Authorization"], BasicSpace)

\* C7 (as claimed): two calls of the same accessor on the same gateway give
\* handles with the same target, whatever happened to the environment
\* between them.
C7_SameTargetOnEveryCall ==
    [][(Built /\ mgr' = mgr /\ ret.call # "" /\ ret'.call = ret.call
            /\ ~ret.raised /\ ~ret'.raised)
        => ret'.target = ret.target]_vars

\* C8 (as claimed): with verify_ssl=False and no certificate path (argument
\* or SSL_CERT_PATH), every session handed out has verification disabled.
C8_InsecureSessionsUnverified ==
    (ReturnedBy(SessionCalls)
        /\ ~ctor[1].args.verify_ssl
        /\ ~HasConfigured("ssl_cert_path", "SSL_CERT_PATH")) =>
        ~ret.value[1].verify.on

\* The gateways built with verify_ssl=False and no certificate path.
InsecureBuilt ==
    Cardinality({i \in DOMAIN gateways :
                    ~gateways[i].verify_ssl /\ ~Truthy(gateways[i].ssl_cert_path)})

\* C9 (as claimed): the suppression call is made once in the process when
\* such a gateway is built, however many are built, and never otherwise.
C9_SuppressedExactlyOnce ==
    suppressCalls = IF InsecureBuilt > 0 THEN 1 ELSE 0

\* C9 (amended): the suppression call is made once for each gateway built
\* with verify_ssl=False and no certificate path, and never otherwise.
C9_SuppressedOncePerInsecureGateway ==
    suppressCalls = InsecureBuilt

C9_Witness ==
    /\ InsecureBuilt = 2
    /\ suppressCalls = 2

\* C10: a constructor call completes and yields a gateway, whichever of the
\* three credentials is missing from both the arguments and the environment.
C10_ConstructionNeverFails ==
    ctor # None => (~ctor[1].raised /\ mgr # None)

C10_Witness ==
    /\ Built
    /\ ~HasConfigured("api_key", "API_KEY")
    /\ ~HasConfigured("neo4j_password", "NEO4J_PASSWORD")
    /\ ~HasConfigured("redis_password", "REDIS_PASSWORD")

\* A credential neither passed to the constructor nor set in the environment
\* when the gateway was built.
Missing(arg, name) == ctor[1].args[arg] = None /\ ctor[1].env[name] = None

\* C11 (as claimed): with the graph password missing get_neo4j_driver and
\* get_neo4j_http_session raise instead of returning a handle, and with the
\* cache password missing get_redis_client does.
C11_MissingCredentialFailsAtRequest ==
    Built =>
        /\ (ret.call \in {"get_neo4j_driver", "get_neo4j_http_session"}
                /\ Missing("neo4j_password", "NEO4J_PASSWORD")) => ret.raised
        /\ (ret.call = "get_redis_client"
                /\ Missing("redis_password", "REDIS_PASSWORD")) => ret.raised

\* The client library an accessor imports; "" when it imports none.
LibOf(call) ==
    CASE call = "get_chroma_client" -> "chromadb"
      [] call = "get_neo4j_driver" -> "neo4j"
      [] call = "get_redis_client" -> "redis"
      [] OTHER -> ""

\* An outcome with the identity of a returned session left out.
WithoutId(r) ==
    IF ~r.raised /\ r.value # None /\ IsSession(r.value[1])
    THEN [r EXCEPT !.value = Some([r.value[1] EXCEPT !.id = 0])]
    ELSE r

\* A step of the object model that is a call of one of the accessors `calls`.
ObjCallStep(calls) ==
    /\ CallStep(calls)
    /\ results' = results
    /\ probe' = probe
    /\ heap' = heap \/ Len(heap') > Len(heap)

\* C12: whatever libraries are missing, construction succeeds; a call of an
\* accessor whose library is missing raises ImportError, every time; and a
\* call of any other accessor has the outcome it has with every library
\* installed, also after calls that failed.
C12_MissingLibraryIsLocal ==
    [][/\ ctor' # ctor => (~ctor'[1].raised /\ mgr' # None)
       /\ ObjCallStep(AccessorCalls) =>
            IF LibOf(ret'.call) \in Libs \ installed
            THEN ret'.raised /\ ret'.exc = "ImportError"
            ELSE WithoutId(ret') = WithoutId(Invoke(mgr[1], ret'.call, Libs, env))]_vars

\* Without the neo4j library: a graph HTTP session was handed out, and the
\* driver accessor raised.
C12_Witness ==
    /\ Built
    /\ installed = {"chromadb", "redis"}
    /\ Len(heap) = 2
    /\ ret.call = "get_neo4j_driver"
    /\ ret.raised
    /\ ret.exc = "ImportError"

\* C13: the client get_chroma_client builds has the X-API-Key header and the
\* token-auth settings, both with the configured API key, exactly when the
\* gateway is proxied and an API key is configured; otherwise it has neither.
C13_ChromaLayersTogether ==
    ReturnedBy({"get_chroma_client"}) =>
        LET client == ret.value[1]
            wanted == ctor[1].args.use_caddy /\ HasConfigured("api_key", "API_KEY")
            key == Configured("api_key", "API_KEY")[1]
        IN  /\ HasHeader(client.headers, "X-API-Key") <=> wanted
            /\ client.settings # None <=> wanted
            /\ wanted =>
                 /\ client.headers["X-API-Key"] = key
                 /\ client.settings[1].chroma_server_auth_credentials = key
                 /\ client.settings[1].chroma_server_auth_provider = TokenAuthProvider
            /\ ~wanted => client.headers = EmptyHeaders

\* A proxied gateway whose key came from the environment: both layers.
C13_Witness ==
    /\ ReturnedBy({"get_chroma_client"})
    /\ ctor[1].args.use_caddy
    /\ ctor[1].args.api_key = None
    /\ ctor[1].env["API_KEY"] # None
    /\ ret.value[1].settings # None
    /\ HasHeader(ret.value[1].headers, "X-API-Key")

\* The sessions of the heap that serve the LLM backend: the one the
\* constructor made and any that get_ollama_session made.
LlmSessions ==
    {i \in DOMAIN heap : heap[i].made_by \in {"__init__", "get_ollama_session"}}

\* C14: over any sequence of calls the gateway has exactly one LLM session,
\* the one its constructor made, and every get_ollama_session call returns
\* that object.
C14_OneCachedLlmSession ==
    Built =>
        /\ LlmSessions = {mgr[1].session.id}
        /\ ReturnedBy({"get_ollama_session"}) =>
             /\ ret.value[1].id = mgr[1].session.id
             /\ heap[ret.value[1].id].made_by = "__init__"
             /\ heap[ret.value[1].id].session = ret.value[1]

\* get_ollama_session returned after two graph sessions had been made: it is
\* still the first object of the heap.
C14_Witness ==
    /\ ReturnedBy({"get_ollama_session"})
    /\ Len(heap) = 3
    /\ ret.value[1].id = 1

\* The calls that use the default gateway without asking for a new one.
NoForceCalls == {"get_client_manager()"} \cup ModuleCalls
ForceCall == "get_client_manager(force_reload=True)"

\* A step of the lifecycle model that is one of the calls `calls`.
DefaultStep(calls) == env' = env /\ ret'.call \in calls

\* C15: there is no default instance until get_client_manager is called
\* (directly or by a module-level function); the first call builds one and
\* installs it; every later call without force_reload builds nothing, leaves
\* the default in place and returns it, or the handle its accessor gives.
C15_DefaultLazyAndReused ==
    /\ [](gateways = <<>> => _client_manager = None)
    /\ [][/\ (_client_manager = None /\ _client_manager' # None) =>
                ret'.call \in NoForceCalls \cup {ForceCall}
          /\ DefaultStep(NoForceCalls) =>
                /\ IF _client_manager = None
                   THEN /\ Len(gateways') = Len(gateways) + 1
                        /\ SubSeq(gateways', 1, Len(gateways)) = gateways
                        /\ _client_manager' = Some(Len(gateways'))
                   ELSE /\ gateways' = gateways
                        /\ _client_manager' = _client_manager
                /\ IF ret'.call = "get_client_manager()"
                   THEN ret'.value = _client_manager'
                   ELSE ret' = Invoke(gateways'[_client_manager'[1]], ret'.call,
                                      installed, env)]_vars

\* The default was built first, another gateway was built directly, and a
\* later get_client_manager() still returned the first.
C15_Witness ==
    /\ Len(gateways) = 2
    /\ _client_manager = Some(1)
    /\ ret.call = "get_client_manager()"
    /\ ret.value = Some(1)

\* C16: get_client_manager(force_reload=True) builds a gateway, installs it
\* as the default and returns it, so what it returns is never the previous
\* default; and a call without force_reload made while a default exists
\* returns the installed one and replaces nothing.
C16_ForceReloadInstallsNew ==
    [][/\ DefaultStep({ForceCall}) =>
            /\ Len(gateways') = Len(gateways) + 1
            /\ SubSeq(gateways', 1, Len(gateways)) = gateways
            /\ _client_manager' = Some(Len(gateways'))
            /\ _client_manager' # _client_manager
            /\ ret'.value = _client_manager'
       /\ (DefaultStep({"get_client_manager()"}) /\ _client_manager # None) =>
            /\ ret'.value = _client_manager
            /\ _client_manager' = _client_manager]_vars

\* With one gateway built already, get_client_manager(force_reload=True)
\* built a second one, installed it and returned it.
C16_Witness ==
    /\ Len(gateways) = 2
    /\ _client_manager = Some(2)
    /\ ret.call = ForceCall
    /\ ret.value = Some(2)

\* The credential set and the deployment mode of a gateway.
CredentialsAndMode(self) ==
    [api_key |-> self.api_key, neo4j_password |-> self.neo4j_password,
     redis_password |-> self.redis_password, use_caddy |-> self.use_caddy]

\* C17: whatever accessor calls, test_connections calls and environment
\* changes have happened since, a gateway's api_key, neo4j_password,
\* redis_password and use_caddy are the ones its constructor call read from
\* its arguments and from the environment as it was then.
C17_CredentialsFixedAtConstruction ==
    Built =>
        CredentialsAndMode(mgr[1])
            = CredentialsAndMode(SCM_init(ctor[1].args, ctor[1].env).self)

\* The cache password was set in the environment after construction, then
\* test_connections and get_redis_client were called.
C17_Witness ==
    /\ Built
    /\ ctor[1].env["REDIS_PASSWORD"] = None
    /\ env["REDIS_PASSWORD"] # None
    /\ results # None
    /\ ret.call = "get_redis_client"
    /\ ~ret.raised
    /\ ret.value[1].password = None

\* The URL the claim expects: the variable's value as it was when the gateway
\* was built, or the mode's default when the variable was not set.
OverrideOr(name, default) ==
    IF ctor[1].env[name] # None THEN ctor[1].env[name][1] ELSE default

\* C18 (as claimed): in both modes each of the three HTTP base URLs is its
\* environment override when that is set, and the mode's default otherwise.
C18_UrlIsOverrideOrModeDefault ==
    Built =>
        LET proxied == ctor[1].args.use_caddy
        IN  /\ mgr[1].ollama_url =
                 OverrideOr("OLLAMA_URL",
                            IF proxied THEN CaddyOllamaUrl ELSE DirectOllamaUrl)
            /\ mgr[1].chroma_url =
                 OverrideOr("CHROMA_URL",
                            IF proxied THEN CaddyChromaUrl ELSE DirectChromaUrl)
            /\ mgr[1].neo4j_http_url =
                 OverrideOr("NEO4J_URL",
                            IF proxied THEN CaddyNeo4jUrl ELSE DirectNeo4jUrl)

\* The credential the claim expects: the argument when one was passed, the
\* environment variable (as it was at construction) only when none was.
PassedOrEnv(arg, name) ==
    IF ctor[1].args[arg] # None THEN ctor[1].args[arg] ELSE ctor[1].env[name]

\* C19 (as claimed): each of api_key, neo4j_password and redis_password is
\* the string passed to the constructor, the empty string included, and the
\* environment variable only when no argument was passed.
C19_PassedValueWins ==
    Built =>
        /\ mgr[1].api_key = PassedOrEnv("api_key", "API_KEY")
        /\ mgr[1].neo4j_password = PassedOrEnv("neo4j_password", "NEO4J_PASSWORD")
        /\ mgr[1].redis_password = PassedOrEnv("redis_password", "REDIS_PASSWORD")

LastStep == Len(WIZARD_STEPS) - 1

VisiblePanels(page) == {k - 1 : k \in {j \in DOMAIN page.panels : page.panels[j]}}

\* C21: on every page, when it is loaded and after every Back or Next click,
\* exactly one of the five step panels is visible, and it is the panel of
\* the stored step.
C21_OnePanelVisible ==
    \A c \in DOMAIN ui :
        /\ Len(ui[c].panels) = Len(WIZARD_STEPS)
        /\ VisiblePanels(ui[c]) = {ui[c].wizard_step_state}

\* A page that a navigation left at step 2: only step3_panel shows.
C21_Witness ==
    /\ Len(ui) >= 1
    /\ ui[1].wizard_step_state = 2
    /\ ui[1].step_status_md = wizard_nav(3, "back").step_indicator
    /\ ui[1].panels = <<FALSE, FALSE, TRUE, FALSE, FALSE>>

\* C22 (as claimed): on a page at the final step, a click on Next gives a
\* page at step 0 (Define Goal) with the first panel visible.
C22_NextOnLastStepStartsOver ==
    \A c \in DOMAIN ui :
        ui[c].wizard_step_state = LastStep =>
            /\ Click(ui[c], "next").wizard_step_state = 0
            /\ Click(ui[c], "next").panels[1]

Tokens(line) == {line[k] : k \in DOMAIN line}
IsBold(line) == Len(line) >= 3 /\ line[2] = "**" /\ line[Len(line)] = "**"
IsStruck(line) == "~~" \in Tokens(line)

\* What the claim says of a rendered step list for active step i.
StepListShows(md, i) ==
    /\ Len(md) = Len(WIZARD_STEPS) + 1
    /\ md[1] = <<"### Steps">>
    /\ \A k \in 1..Len(WIZARD_STEPS) :
         LET line == md[k + 1]
         IN  /\ line[1] = "- "
             /\ WIZARD_STEPS[k] \in Tokens(line)
             /\ \A j \in 1..Len(WIZARD_STEPS) :
                    j # k => WIZARD_STEPS[j] \notin Tokens(line)
             /\ IsBold(line) <=> k - 1 = i
             /\ IsStruck(line) <=> k - 1 < i
             /\ k - 1 < i =>
                    line = <<"- ", "~~", WIZARD_STEPS[k], "~~", " ", "U+2713">>
             /\ k - 1 > i => ("U+25CB" \in Tokens(line) /\ str(k) \in Tokens(line))
             /\ k - 1 = i => ("U+25CF" \in Tokens(line) /\ str(k) \in Tokens(line))

\* C23: the step list of every page is render_step_list of its step, and for
\* each step 0..4 it is the header and five lines in wizard order: the
\* active step in bold, the steps before it struck through with a check
\* mark, the steps after it plain with an open circle.
C23_StepListRendering ==
    \A c \in DOMAIN ui :
        /\ ui[c].steps_md = render_step_list(ui[c].wizard_step_state)
        /\ StepListShows(ui[c].steps_md, ui[c].wizard_step_state)

\* Pages at the first, a middle and the last step at once.
C23_Witness ==
    /\ Len(ui) = 3
    /\ ui[1].wizard_step_state = 0
    /\ ui[2].wizard_step_state = 2
    /\ ui[3].wizard_step_state = LastStep
    /\ IsStruck(ui[3].steps_md[2])

\* C24: on every page, when it is loaded and after every change of the mode
\* radio, the wizard group is visible exactly when "Guided Wizard" is
\* selected and the expert group exactly when "Expert Ops Mode" is, so
\* exactly one of the two groups is visible.
C24_OneModeGroupVisible ==
    \A c \in DOMAIN ui :
        /\ ui[c].mode_radio \in Modes
        /\ ui[c].guided_group <=> ui[c].mode_radio = "Guided Wizard"
        /\ ui[c].expert_group <=> ui[c].mode_radio = "Expert Ops Mode"
        /\ ui[c].guided_group # ui[c].expert_group

\* One page switched to the expert container; another, whose wizard was
\* moved, shows the wizard.
C24_Witness ==
    /\ Len(ui) >= 2
    /\ ui[1].mode_radio = "Expert Ops Mode"
    /\ ui[1].expert_group
    /\ ~ui[1].guided_group
    /\ ui[2].mode_radio = "Guided Wizard"
    /\ ui[2].wizard_step_state = 1

\* The steps (Python index) a "Step n of 5 ..." text names, and the steps a
\* step list shows in bold.
StepsNamedBy(text) ==
    {n \in 0..LastStep :
        \E k \in 1..(Len(text) - 1) : text[k] = "Step " /\ text[k + 1] = str(n + 1)}
StepsBoldIn(md) == {n \in 0..LastStep : n + 2 <= Len(md) /\ IsBold(md[n + 2])}

\* C25 (as claimed): on every page the step list, the step indicator header,
\* the bottom status line and the visible panel all show the stored step.
C25_StepDisplaysAgree ==
    \A c \in DOMAIN ui :
        LET step == ui[c].wizard_step_state
        IN  /\ StepsBoldIn(ui[c].steps_md) = {step}
            /\ StepsNamedBy(ui[c].step_indicator_md) = {step}
            /\ StepsNamedBy(ui[c].step_status_md) = {step}
            /\ VisiblePanels(ui[c]) = {step}

\* C26 (as claimed): when every thread called get_client_manager() without
\* force_reload, starting with no default instance, at most one gateway is
\* ever built, exactly one once a thread has returned, and every thread that
\* has returned got that one.
C26_OneInstanceUnderThreads ==
    (\A t \in DOMAIN threads : ~threads[t].force_reload) =>
        /\ Len(gateways) <= 1
        /\ \A t \in DOMAIN threads :
             threads[t].pc = "done" =>
                 (Len(gateways) = 1 /\ threads[t].returned = Some(1))

\* C27 (as claimed): when test_connections returns, every driver it got from
\* get_neo4j_driver has been closed, whatever the graph database did.
C27_DriversClosedOnReturn ==
    results # None => results[1].open_drivers = 0

\* The graph HTTP sessions of the heap.
GraphSessions == {i \in DOMAIN heap : heap[i].made_by = "get_neo4j_http_session"}

\* C28: every get_neo4j_http_session call returns an object that did not
\* exist before the call, so it is neither the gateway's LLM session nor an
\* earlier graph session; the LLM session never carries Authorization; and a
\* header the caller adds to a returned graph session shows in that object
\* alone.
C28_GraphSessionsAreFresh ==
    /\ [](Built =>
            /\ mgr[1].session = heap[mgr[1].session.id].session
            /\ ~HasHeader(mgr[1].session.headers, "Authorization")
            /\ ~HasHeader(mgr[1].session.headers, CallerHeader)
            /\ mgr[1].session.id \notin GraphSessions
            /\ ReturnedBy({"get_neo4j_http_session"}) =>
                 /\ ret.value[1].id \in GraphSessions
                 /\ heap[ret.value[1].id].session = ret.value[1]
                 /\ \A i \in DOMAIN heap :
                        HasHeader(heap[i].session.headers, CallerHeader) =>
                            i \in GraphSessions)
    /\ [][/\ (Built /\ ret'.call = "get_neo4j_http_session" /\ ~ret'.raised
                /\ Len(heap') > Len(heap)) =>
                /\ ret'.value[1].id \notin DOMAIN heap
                /\ SubSeq(heap', 1, Len(heap)) = heap
          /\ (Built /\ Len(heap') = Len(heap) /\ heap' # heap) =>
                /\ Cardinality({i \in DOMAIN heap : heap'[i] # heap[i]}) = 1
                /\ heap'[ret.value[1].id] # heap[ret.value[1].id]
                /\ mgr' = mgr]_vars

\* Two graph sessions were made; the caller marked the second one only, and
\* neither the first nor the LLM session shows the mark.
C28_Witness ==
    /\ Built
    /\ Len(heap) = 3
    /\ GraphSessions = {2, 3}
    /\ HasHeader(heap[3].session.headers, CallerHeader)
    /\ ~HasHeader(heap[2].session.headers, CallerHeader)
    /\ HasHeader(heap[3].session.headers, "Authorization")
    /\ ~HasHeader(heap[1].session.headers, CallerHeader)

\* The reply text of the last entry of a chat history.
LastReply(history) == history[Len(history)][2]

\* A step in which expert_chat_stream yields.
Yields == chat'.yields = chat.yields + 1

\* C29: a stream that was started runs to its end. For an empty message it
\* yields once, the history it was given. For any other message every yield
\* shows the given history followed by one entry for the message, whose
\* reply extends the reply of the yield before; there is one yield per token
\* of the canned reply, the last showing every token (each followed by a
\* space). Every yield clears the input box.
C29_StreamTerminatesAndGrows ==
    /\ (chat.pc = "start") ~> (chat.pc = "done")
    /\ [](chat.pc = "done" =>
            IF chat.sent.user_msg = ""
            THEN chat.yields = 1 /\ chat.expert_chatbot = chat.sent.chat_history
            ELSE /\ chat.yields = Len(ReplyTokens)
                 /\ LastReply(chat.expert_chatbot) = full_reply \o <<32>>)
    /\ [][Yields =>
            /\ chat'.expert_input = ""
            /\ chat'.sent = chat.sent
            /\ IF chat.sent.user_msg = ""
               THEN chat'.expert_chatbot = chat.sent.chat_history
               ELSE LET given == chat.sent.chat_history
                        shown == chat'.expert_chatbot
                    IN  /\ Len(shown) = Len(given) + 1
                        /\ SubSeq(shown, 1, Len(given)) = given
                        /\ shown[Len(shown)][1] = chat.sent.user_msg
                        /\ StartsWith(full_reply \o <<32>>, LastReply(shown))
                        /\ chat.yields >= 1 =>
                             /\ StartsWith(LastReply(shown),
                                           LastReply(chat.expert_chatbot))
                             /\ Len(LastReply(shown))
                                    > Len(LastReply(chat.expert_chatbot))]_vars

\* A second question was answered in full: two entries, one yield per token.
C29_Witness ==
    /\ chat.pc = "done"
    /\ chat.sent.user_msg = "trace tx"
    /\ Len(chat.expert_chatbot) = 2
    /\ chat.expert_chatbot[1][1] = "balance?"
    /\ chat.yields = 60
    /\ chat.expert_input = ""


\* The section headers of the six groups and of the summary, in the order of
\* run_all_tests.
AllHeaders ==
    <<"Health Check", "Testing Ollama", "Testing ChromaDB (API v2)", "Testing Neo4j",
      "Testing Redis (Direct Connection)", "Testing Authentication", "Test Summary">>

\* C30: run_all_tests is never left by an exception, and when it has
\* returned, the six groups and the summary have run in order and the exit
\* code is 0 exactly when no failure was counted, 1 otherwise.
C30_RunAllTestsCompletes ==
    /\ tester.pc # "raised"
    /\ tester.pc = "returned" =>
         /\ tester.printed = AllHeaders
         /\ tester.exit_code = Some(IF tester.results.failed = 0 THEN 0 ELSE 1)

====
